---- MODULE Spec2Model ----
(***************************************************************************)
(* The IONOS DNS API client of providers/dns/ionos/internal/client.go:     *)
(* NewClient, the four operations ListZones, ReplaceRecords, GetRecords    *)
(* and RemoveRecord, the shared makeRequest helper and readError.          *)
(*                                                                         *)
(* A byte stream (a request or response body) is a sequence of lexical     *)
(* tokens; encoding/json is modelled by a parser over those tokens and by  *)
(* a decoder of the parsed value into a typed Go value.  The HTTP          *)
(* transport and the server are the environment: they answer a request     *)
(* with a failure or with a status code and a body, and may deliver only   *)
(* a prefix of a body before a read fails.                                 *)
(***************************************************************************)
EXTENDS Integers, Sequences, FiniteSets, TLC

(***************************************************************************)
(* Lexical tokens.  A number is carried as its numeral.                    *)
(***************************************************************************)
P(c) == [t |-> "punct", v |-> c]
S(s) == [t |-> "str", v |-> s]
N(n) == [t |-> "num", v |-> n]
L(w) == [t |-> "lit", v |-> w]
W(w) == [t |-> "word", v |-> w]

(***************************************************************************)
(* JSON values: the result of parsing.                                     *)
(***************************************************************************)
JNull == [t |-> "null"]
JStr(s) == [t |-> "str", s |-> s]
JNum(n) == [t |-> "num", n |-> n]
JBool(b) == [t |-> "bool", b |-> b]
JArr(a) == [t |-> "arr", a |-> a]
JObj(m) == [t |-> "obj", m |-> m]

ParseFail(i) == [ok |-> FALSE, val |-> JNull, next |-> i]
ParseOk(v, i) == [ok |-> TRUE, val |-> v, next |-> i]

IsPunct(toks, i, c) == i <= Len(toks) /\ toks[i].t = "punct" /\ toks[i].v = c

RECURSIVE ParseValue(_, _), ParseElems(_, _, _), ParseMembers(_, _, _)

\* One JSON value starting at token i; next is the index after it.
ParseValue(toks, i) ==
    IF i > Len(toks) THEN ParseFail(i)
    ELSE LET tok == toks[i] IN
         CASE tok.t = "str" -> ParseOk(JStr(tok.v), i + 1)
           [] tok.t = "num" -> ParseOk(JNum(tok.v), i + 1)
           [] tok.t = "lit" ->
                 IF tok.v = "null" THEN ParseOk(JNull, i + 1)
                 ELSE ParseOk(JBool(tok.v = "true"), i + 1)
           [] tok.t = "punct" ->
                 IF tok.v = "[" THEN
                     IF IsPunct(toks, i + 1, "]") THEN ParseOk(JArr(<<>>), i + 2)
                     ELSE ParseElems(toks, i + 1, <<>>)
                 ELSE IF tok.v = "{" THEN
                     IF IsPunct(toks, i + 1, "}") THEN ParseOk(JObj(<<>>), i + 2)
                     ELSE ParseMembers(toks, i + 1, <<>>)
                 ELSE ParseFail(i)
           [] OTHER -> ParseFail(i)

ParseElems(toks, i, acc) ==
    LET r == ParseValue(toks, i) IN
    IF ~r.ok THEN r
    ELSE IF IsPunct(toks, r.next, ",") THEN ParseElems(toks, r.next + 1, Append(acc, r.val))
    ELSE IF IsPunct(toks, r.next, "]") THEN ParseOk(JArr(Append(acc, r.val)), r.next + 1)
    ELSE ParseFail(r.next)

ParseMembers(toks, i, acc) ==
    IF ~(i <= Len(toks) /\ toks[i].t = "str" /\ IsPunct(toks, i + 1, ":")) THEN ParseFail(i)
    ELSE LET r == ParseValue(toks, i + 2)
             mem == [k |-> toks[i].v, v |-> r.val]
         IN  IF ~r.ok THEN r
             ELSE IF IsPunct(toks, r.next, ",") THEN ParseMembers(toks, r.next + 1, Append(acc, mem))
             ELSE IF IsPunct(toks, r.next, "}") THEN ParseOk(JObj(Append(acc, mem)), r.next + 1)
             ELSE ParseFail(r.next)

(***************************************************************************)
(* Go types the client decodes into: descriptors and zero values.          *)
(***************************************************************************)
TString == [k |-> "string"]
TInt == [k |-> "int"]
TBool == [k |-> "bool"]
TSlice(e) == [k |-> "slice", e |-> e]
TStruct(f) == [k |-> "struct", f |-> f]

ErrorType == TStruct([code |-> TString, message |-> TString])
ClientErrorsType == TSlice(ErrorType)
ZoneType == TStruct([id |-> TString, name |-> TString])
RecordType ==
    TStruct([id |-> TString, name |-> TString, type |-> TString, content |-> TString,
             ttl |-> TInt, prio |-> TInt, disabled |-> TBool])
CustomerZoneType ==
    TStruct([id |-> TString, name |-> TString, type |-> TString,
             records |-> TSlice(RecordType)])

RECURSIVE Zero(_)
Zero(ty) ==
    CASE ty.k = "string" -> ""
      [] ty.k = "int" -> "0"
      [] ty.k = "bool" -> FALSE
      [] ty.k = "slice" -> <<>>
      [] ty.k = "struct" -> [f \in DOMAIN ty.f |-> Zero(ty.f[f])]

(***************************************************************************)
(* encoding/json: storing a parsed value into a Go value of type ty that   *)
(* currently holds cur.  A value of the wrong JSON kind is skipped, the    *)
(* error is remembered and decoding goes on; null leaves a non-nillable    *)
(* value alone and sets a slice to nil.                                    *)
(***************************************************************************)
RECURSIVE DecodeInto(_, _, _), DecodeElems(_, _, _, _, _), DecodeMembers(_, _, _, _, _)

DecodeInto(val, ty, cur) ==
    IF val.t = "null" THEN
        [v |-> IF ty.k = "slice" THEN <<>> ELSE cur, err |-> FALSE]
    ELSE CASE ty.k = "string" ->
                 IF val.t = "str" THEN [v |-> val.s, err |-> FALSE]
                 ELSE [v |-> cur, err |-> TRUE]
           [] ty.k = "int" ->
                 IF val.t = "num" THEN [v |-> val.n, err |-> FALSE]
                 ELSE [v |-> cur, err |-> TRUE]
           [] ty.k = "bool" ->
                 IF val.t = "bool" THEN [v |-> val.b, err |-> FALSE]
                 ELSE [v |-> cur, err |-> TRUE]
           [] ty.k = "slice" ->
                 IF val.t = "arr" THEN DecodeElems(val.a, 1, ty.e, <<>>, FALSE)
                 ELSE [v |-> cur, err |-> TRUE]
           [] ty.k = "struct" ->
                 IF val.t = "obj" THEN DecodeMembers(val.m, 1, ty, cur, FALSE)
                 ELSE [v |-> cur, err |-> TRUE]

DecodeElems(elems, i, ety, acc, err) ==
    IF i > Len(elems) THEN [v |-> acc, err |-> err]
    ELSE LET r == DecodeInto(elems[i], ety, Zero(ety))
         IN  DecodeElems(elems, i + 1, ety, Append(acc, r.v), err \/ r.err)

DecodeMembers(mems, i, ty, cur, err) ==
    IF i > Len(mems) THEN [v |-> cur, err |-> err]
    ELSE LET key == mems[i].k IN
         IF key \notin DOMAIN ty.f THEN DecodeMembers(mems, i + 1, ty, cur, err)
         ELSE LET r == DecodeInto(mems[i].v, ty.f[key], cur[key])
              IN  DecodeMembers(mems, i + 1, ty, [cur EXCEPT ![key] = r.v], err \/ r.err)

\* json.Unmarshal(data, &v): data must be exactly one valid JSON value; a
\* syntax error is found before anything is stored.
Unmarshal(data, ty, cur) ==
    LET r == ParseValue(data, 1) IN
    IF ~(r.ok /\ r.next = Len(data) + 1) THEN [v |-> cur, err |-> "syntax"]
    ELSE LET d == DecodeInto(r.val, ty, cur)
         IN  [v |-> d.v, err |-> IF d.err THEN "type" ELSE "none"]

\* json.NewDecoder(r).Decode(&v): the first JSON value of the stream; what
\* follows it is not looked at.  got is what the reader delivered, eof
\* whether the reader ended normally.
StreamDecode(got, eof, ty, cur) ==
    LET r == ParseValue(got, 1) IN
    IF ~r.ok THEN [v |-> cur, err |-> IF r.next > Len(got) /\ ~eof THEN "read" ELSE "syntax"]
    ELSE LET d == DecodeInto(r.val, ty, cur)
         IN  [v |-> d.v, err |-> IF d.err THEN "type" ELSE "none"]

(***************************************************************************)
(* json.Marshal of the records of a ReplaceRecords call.                   *)
(***************************************************************************)
RecordStrings == <<"id", "name", "content", "type">>

RECURSIVE MarshalFields(_, _, _)
MarshalFields(rec, i, acc) ==
    IF i > Len(RecordStrings) THEN acc
    ELSE MarshalFields(rec, i + 1,
             acc \o (IF i = 1 THEN <<>> ELSE <<P(",")>>)
                 \o <<S(RecordStrings[i]), P(":"), S(rec[RecordStrings[i]])>>)

MarshalRecord(rec) ==
    <<P("{")>> \o MarshalFields(rec, 1, <<>>)
        \o <<P(","), S("ttl"), P(":"), N(rec.ttl), P(","), S("prio"), P(":"), N(rec.prio),
             P(","), S("disabled"), P(":"), L(IF rec.disabled THEN "true" ELSE "false"), P("}")>>

RECURSIVE MarshalRecords(_, _, _)
MarshalRecords(records, i, acc) ==
    IF i > Len(records) THEN <<P("[")>> \o acc \o <<P("]")>>
    ELSE MarshalRecords(records, i + 1,
             acc \o (IF i = 1 THEN <<>> ELSE <<P(",")>>) \o MarshalRecord(records[i]))

Marshal(records) == [err |-> FALSE, data |-> MarshalRecords(records, 1, <<>>)]

(***************************************************************************)
(* URLs, the filter's query string, requests.                              *)
(***************************************************************************)
defaultBaseURL ==
    [scheme |-> "https", host |-> "api.hosting.ionos.com", path |-> <<"dns">>, RawQuery |-> <<>>]

RECURSIVE CleanElems(_, _, _)
CleanElems(elem, i, acc) ==
    IF i > Len(elem) THEN acc
    ELSE CleanElems(elem, i + 1, IF elem[i] = "" THEN acc ELSE Append(acc, elem[i]))

\* (*url.URL).JoinPath: a new URL; the receiver is left as it is.
JoinPath(u, elem) == [u EXCEPT !.path = CleanElems(u.path \o elem, 1, <<>>)]

NoFilter == [nil |-> TRUE, suffix |-> "", recordName |-> "", recordType |-> ""]
Filter(sfx, name, type) == [nil |-> FALSE, suffix |-> sfx, recordName |-> name, recordType |-> type]
FilterFields == <<"recordName", "recordType", "suffix">>

RECURSIVE EncodeFields(_, _, _)
EncodeFields(filter, i, acc) ==
    IF i > Len(FilterFields) THEN acc
    ELSE EncodeFields(filter, i + 1,
             IF filter[FilterFields[i]] = "" THEN acc
             ELSE Append(acc, <<FilterFields[i], filter[FilterFields[i]]>>))

\* querystring.Values(filter) followed by Values.Encode(): one key=value per
\* non-zero field, sorted by key.  It fails only on a value that is no struct.
QueryValues(filter) == [err |-> FALSE, query |-> EncodeFields(filter, 1, <<>>)]

NoHeader == [h \in {} |-> ""]
HeaderSet(header, key, value) ==
    [h \in DOMAIN header \cup {key} |-> IF h = key THEN value ELSE header[h]]

NoBody == <<>>
NoRequest == [method |-> "", URL |-> defaultBaseURL, Header |-> NoHeader, Body |-> NoBody]

\* http.NewRequestWithContext: fails on a nil context.
NewRequestWithContext(ctx, method, url, body) ==
    [err |-> ctx = "nil",
     req |-> IF ctx = "nil" THEN NoRequest
             ELSE [method |-> method, URL |-> url, Header |-> NoHeader, Body |-> body]]

\* Variant: Content-Type is set only on a request that has a body.
makeRequestBodyOnly(cl, ctx, method, endpoint, body) ==
    LET r == NewRequestWithContext(ctx, method, endpoint, body) IN
    IF r.err THEN r
    ELSE [err |-> FALSE,
          req |-> [r.req EXCEPT !.Header =
                      HeaderSet(IF body = NoBody THEN HeaderSet(@, "Accept", "application/json")
                                ELSE HeaderSet(HeaderSet(@, "Accept", "application/json"),
                                               "Content-Type", "application/json"),
                                "X-API-Key", cl.apiKey)]]

makeRequest(cl, ctx, method, endpoint, body) ==
    LET r == NewRequestWithContext(ctx, method, endpoint, body) IN
    IF r.err THEN r
    ELSE [err |-> FALSE,
          req |-> [r.req EXCEPT !.Header =
                      HeaderSet(HeaderSet(HeaderSet(@, "Accept", "application/json"),
                                          "Content-Type", "application/json"),
                                "X-API-Key", cl.apiKey)]]

(***************************************************************************)
(* Errors.  kind "create", "call" and "parse" are the fmt.Errorf wrappers  *)
(* of the operations with their cause; kind "client" is a *ClientError.    *)
(***************************************************************************)
StatusOK == 200

Err(kind, cause) ==
    [kind |-> kind, cause |-> cause, StatusCode |-> 0, errors |-> <<>>, message |-> <<>>]
NoErr == Err("nil", "")

\* io.ReadAll on a body of which the transport delivers the first n tokens.
ReadAll(body) == [data |-> SubSeq(body.toks, 1, body.n), err |-> body.fail]

\* Variant: the raw-text fallback is left out.
readErrorNoFallback(body, statusCode) ==
    LET bodyBytes == ReadAll(body).data
        cErr == [Err("client", "") EXCEPT !.StatusCode = statusCode]
        u == Unmarshal(bodyBytes, ClientErrorsType, cErr.errors)
    IN  [cErr EXCEPT !.errors = u.v]

readError(body, statusCode) ==
    LET bodyBytes == ReadAll(body).data
        cErr == [Err("client", "") EXCEPT !.StatusCode = statusCode]
        u == Unmarshal(bodyBytes, ClientErrorsType, cErr.errors)
    IN  IF u.err # "none" THEN [cErr EXCEPT !.errors = u.v, !.message = bodyBytes]
        ELSE [cErr EXCEPT !.errors = u.v]

(***************************************************************************)
(* Inputs: the arguments callers pass and the answers of the server.       *)
(***************************************************************************)
NumCallers == 2

ApiKeys == {"key-a", "key-b"}
ZoneIDs == {"z1"}
RecordIDs == {"r1"}
Filters == {NoFilter, Filter("", "www", "A"), Filter("", "", "")}
WwwRecord ==
    [id |-> "1", name |-> "www", type |-> "A", content |-> "1.2.3.4",
     ttl |-> "0", prio |-> "0", disabled |-> FALSE]
RecordLists == {<<>>, <<WwwRecord>>}

WwwTokens ==
    <<P("{"), S("id"), P(":"), S("1"), P(","), S("name"), P(":"), S("www"), P(","),
      S("type"), P(":"), S("A"), P(","), S("content"), P(":"), S("1.2.3.4"), P("}")>>
BodyEmpty == <<>>
BodyText == <<W("upstream"), W("timeout")>>
BodyNull == <<L("null")>>
BodyMessageObject == <<P("{"), S("message"), P(":"), S("invalid key"), P("}")>>
BodyMessageList == <<P("[")>> \o BodyMessageObject \o <<P("]")>>
BodyMixedList == <<P("["), P("{"), S("code"), P(":"), S("E1"), P("}"), P(","), N("7"), P("]")>>
BodyWwwList == <<P("[")>> \o WwwTokens \o <<P("]")>>
BodyWwwZone ==
    <<P("{"), S("id"), P(":"), S("z1"), P(","), S("records"), P(":")>> \o BodyWwwList \o <<P("}")>>
Bodies ==
    {BodyEmpty, BodyText, BodyNull, BodyMessageObject, BodyMessageList, BodyMixedList,
     BodyWwwList, BodyWwwZone}
Statuses == {StatusOK, 204, 401}

\* What the callers and the server may do, by the name the state carries in
\* env: every context and every answer, or a small choice of them for runs
\* with several callers on one client.
Ctxs(e) == IF e = "full" THEN {"nil", "live", "done"} ELSE {"live"}
Responses(e) ==
    IF e = "full" THEN [status : Statuses, body : Bodies]
    ELSE {[status |-> 401, body |-> BodyEmpty]}

(***************************************************************************)
(* State.  client is the shared *Client; calls[c] is the call caller c has *)
(* in progress: where it stands (pc), its arguments, the requests it       *)
(* handed to the transport, the response it obtained, how much of the      *)
(* response body it read, how often it closed the body and what it         *)
(* returned.                                                               *)
(***************************************************************************)
VARIABLES client, calls, env
vars == <<client, calls, env>>

NoArgs == [zoneID |-> "", recordID |-> "", filter |-> NoFilter, records |-> <<>>]
NoResponse == [status |-> 0, body |-> <<>>]
IdleCall ==
    [pc |-> "idle", op |-> "", ctx |-> "nil", args |-> NoArgs, sent |-> <<>>,
     hasResp |-> FALSE, resp |-> NoResponse, got |-> 0, readErr |-> "none", closed |-> 0,
     ret |-> [data |-> <<>>, err |-> NoErr]]

NewClient(apiKey) ==
    [HTTPClient |-> "http.DefaultClient", BaseURL |-> defaultBaseURL, apiKey |-> apiKey]

Begin(op, ctx, args) == [IdleCall EXCEPT !.op = op, !.ctx = ctx, !.args = args]
Returned(call, data, err) == [call EXCEPT !.pc = "done", !.ret = [data |-> data, err |-> err]]
\* c.HTTPClient.Do(req): the request is handed to the transport.
Do(call, req) == [call EXCEPT !.pc = "inflight", !.sent = Append(@, req)]
\* Variant: the body is closed on the success path only.
CloseOnSuccess(call) == IF call.ret.err = NoErr THEN [call EXCEPT !.closed = @ + 1] ELSE call
\* The deferred resp.Body.Close().
Close(call) == [call EXCEPT !.closed = @ + 1]

\* The response body as the call reads it: the transport delivers the first n
\* tokens, and then the end of the body (n all of it) or a failed read.
Reader(call, n) ==
    [toks |-> call.resp.body, n |-> n,
     fail |-> IF n = Len(call.resp.body) THEN "none"
              ELSE IF call.ctx = "live" THEN "net" ELSE "ctx"]
HasRead(call, body, err) == [call EXCEPT !.got = body.n, !.readErr = err]

Init ==
    /\ \E apiKey \in ApiKeys : client = NewClient(apiKey)
    /\ calls = [c \in 1..1 |-> IdleCall]
    /\ env = "full"

InitShared ==
    /\ \E apiKey \in ApiKeys : client = NewClient(apiKey)
    /\ calls = [c \in 1..NumCallers |-> IdleCall]
    /\ env = "shared"

(***************************************************************************)
(* The four operations, each up to the point where it blocks in Do.        *)
(***************************************************************************)
ListZones(c) ==
    /\ calls[c].pc = "idle"
    /\ \E ctx \in Ctxs(env) :
          LET call == Begin("ListZones", ctx, NoArgs)
              endpoint == JoinPath(client.BaseURL, <<"v1", "zones">>)
              r == makeRequest(client, ctx, "GET", endpoint, NoBody)
          IN  calls' = [calls EXCEPT ![c] =
                           IF r.err THEN Returned(call, <<>>, Err("create", "nil context"))
                           ELSE Do(call, r.req)]
    /\ UNCHANGED <<client, env>>

ReplaceRecords(c) ==
    /\ calls[c].pc = "idle"
    /\ \E ctx \in Ctxs(env), zoneID \in ZoneIDs, records \in RecordLists :
          LET call == Begin("ReplaceRecords", ctx, [NoArgs EXCEPT !.zoneID = zoneID, !.records = records])
              endpoint == JoinPath(client.BaseURL, <<"v1", "zones", zoneID>>)
              m == Marshal(records)
              r == makeRequest(client, ctx, "PATCH", endpoint, m.data)
          IN  calls' = [calls EXCEPT ![c] =
                           IF m.err THEN Returned(call, <<>>, Err("marshal", ""))
                           ELSE IF r.err THEN Returned(call, <<>>, Err("create", "nil context"))
                           ELSE Do(call, r.req)]
    /\ UNCHANGED <<client, env>>

\* Variant: the request's URL is the client's BaseURL itself, not a copy.
SetRawQueryShared(cl, req, query) ==
    [client |-> [cl EXCEPT !.BaseURL.RawQuery = query],
     req |-> [req EXCEPT !.URL.RawQuery = query]]

\* req.URL.RawQuery = v.Encode(): the request's own URL, parsed by
\* NewRequestWithContext from endpoint.String(), not the client's BaseURL.
SetRawQuery(cl, req, query) == [client |-> cl, req |-> [req EXCEPT !.URL.RawQuery = query]]

GetRecords(c) ==
    /\ calls[c].pc = "idle"
    /\ \E ctx \in Ctxs(env), zoneID \in ZoneIDs, filter \in Filters :
          LET call == Begin("GetRecords", ctx, [NoArgs EXCEPT !.zoneID = zoneID, !.filter = filter])
              endpoint == JoinPath(client.BaseURL, <<"v1", "zones", zoneID>>)
              r == makeRequest(client, ctx, "GET", endpoint, NoBody)
              q == QueryValues(filter)
              w == IF filter.nil THEN [client |-> client, req |-> r.req]
                   ELSE SetRawQuery(client, r.req, q.query)
          IN  IF r.err THEN
                  /\ calls' = [calls EXCEPT ![c] = Returned(call, <<>>, Err("create", "nil context"))]
                  /\ client' = client
              ELSE IF ~filter.nil /\ q.err THEN
                  /\ calls' = [calls EXCEPT ![c] = Returned(call, <<>>, Err("query", ""))]
                  /\ client' = client
              ELSE
                  /\ calls' = [calls EXCEPT ![c] = Do(call, w.req)]
                  /\ client' = w.client
    /\ UNCHANGED env

RemoveRecord(c) ==
    /\ calls[c].pc = "idle"
    /\ \E ctx \in Ctxs(env), zoneID \in ZoneIDs, recordID \in RecordIDs :
          LET call == Begin("RemoveRecord", ctx, [NoArgs EXCEPT !.zoneID = zoneID, !.recordID = recordID])
              endpoint == JoinPath(client.BaseURL, <<"v1", "zones", zoneID, "records", recordID>>)
              r == makeRequest(client, ctx, "DELETE", endpoint, NoBody)
          IN  calls' = [calls EXCEPT ![c] =
                           IF r.err THEN Returned(call, <<>>, Err("create", "nil context"))
                           ELSE Do(call, r.req)]
    /\ UNCHANGED <<client, env>>

(***************************************************************************)
(* The environment: the caller cancels its context; the transport answers. *)
(***************************************************************************)
Cancel(c) ==
    /\ calls[c].pc \in {"inflight", "resp"}
    /\ calls[c].ctx = "live"
    /\ calls' = [calls EXCEPT ![c].ctx = "cancelled"]
    /\ UNCHANGED <<client, env>>

\* Variant: a failed exchange is tried once more.
DoFailsRetry(c) ==
    /\ calls[c].pc = "inflight"
    /\ calls' = [calls EXCEPT ![c] =
                    IF Len(@.sent) < 2 THEN Do(@, @.sent[1])
                    ELSE Returned(@, <<>>, Err("call", IF @.ctx = "live" THEN "net" ELSE "ctx"))]
    /\ UNCHANGED <<client, env>>

\* Do returns an error: the network failed, or the context is done.  Every
\* operation wraps it the same way ("failed to call API: %w").
DoFails(c) ==
    /\ calls[c].pc = "inflight"
    /\ calls' = [calls EXCEPT ![c] =
                    Returned(@, <<>>, Err("call", IF @.ctx = "live" THEN "net" ELSE "ctx"))]
    /\ UNCHANGED <<client, env>>

\* Do returns a response.  A context done before the call never gets one; one
\* cancelled while the request is in flight may lose the race to the response.
DoResponds(c) ==
    /\ calls[c].pc = "inflight"
    /\ calls[c].ctx \in {"live", "cancelled"}
    /\ \E resp \in Responses(env) :
          calls' = [calls EXCEPT ![c] = [@ EXCEPT !.pc = "resp", !.hasResp = TRUE, !.resp = resp]]
    /\ UNCHANGED <<client, env>>

(***************************************************************************)
(* The four operations from the response to the return.                    *)
(***************************************************************************)
DecodeCause(d, body) == IF d.err = "read" THEN body.fail ELSE d.err

ListZonesBody(call, body) ==
    IF call.resp.status # StatusOK THEN
        Returned(HasRead(call, body, ReadAll(body).err), <<>>, readError(body, call.resp.status))
    ELSE LET zones == <<>>
             d == StreamDecode(ReadAll(body).data, body.fail = "none", TSlice(ZoneType), zones)
         IN  IF d.err # "none" THEN
                 Returned(HasRead(call, body, IF d.err = "read" THEN body.fail ELSE "none"),
                          <<>>, Err("parse", DecodeCause(d, body)))
             ELSE Returned(HasRead(call, body, "none"), d.v, NoErr)

ReplaceRecordsBody(call, body) ==
    IF call.resp.status # StatusOK THEN
        Returned(HasRead(call, body, ReadAll(body).err), <<>>, readError(body, call.resp.status))
    ELSE Returned(call, <<>>, NoErr)

\* Variant: the body is decoded as a list of records, not as a zone.
GetRecordsBodyAsList(call, body) ==
    IF call.resp.status # StatusOK THEN
        Returned(HasRead(call, body, ReadAll(body).err), <<>>, readError(body, call.resp.status))
    ELSE LET d == StreamDecode(ReadAll(body).data, body.fail = "none", TSlice(RecordType), <<>>)
         IN  IF d.err # "none" THEN
                 Returned(HasRead(call, body, IF d.err = "read" THEN body.fail ELSE "none"),
                          <<>>, Err("parse", DecodeCause(d, body)))
             ELSE Returned(HasRead(call, body, "none"), d.v, NoErr)

GetRecordsBody(call, body) ==
    IF call.resp.status # StatusOK THEN
        Returned(HasRead(call, body, ReadAll(body).err), <<>>, readError(body, call.resp.status))
    ELSE LET zone == Zero(CustomerZoneType)
             d == StreamDecode(ReadAll(body).data, body.fail = "none", CustomerZoneType, zone)
         IN  IF d.err # "none" THEN
                 Returned(HasRead(call, body, IF d.err = "read" THEN body.fail ELSE "none"),
                          <<>>, Err("parse", DecodeCause(d, body)))
             ELSE Returned(HasRead(call, body, "none"), d.v.records, NoErr)

\* Variant: every 2xx status counts as success.
RemoveRecordBody2xx(call, body) ==
    IF call.resp.status < 200 \/ call.resp.status > 299 THEN
        Returned(HasRead(call, body, ReadAll(body).err), <<>>, readError(body, call.resp.status))
    ELSE Returned(call, <<>>, NoErr)

RemoveRecordBody(call, body) ==
    IF call.resp.status # StatusOK THEN
        Returned(HasRead(call, body, ReadAll(body).err), <<>>, readError(body, call.resp.status))
    ELSE Returned(call, <<>>, NoErr)

Respond(c, op) == calls[c].pc = "resp" /\ calls[c].op = op

ListZonesResp(c) ==
    /\ Respond(c, "ListZones")
    /\ \E n \in 0..Len(calls[c].resp.body) :
          calls' = [calls EXCEPT ![c] = Close(ListZonesBody(@, Reader(@, n)))]
    /\ UNCHANGED <<client, env>>

ReplaceRecordsResp(c) ==
    /\ Respond(c, "ReplaceRecords")
    /\ \E n \in 0..Len(calls[c].resp.body) :
          calls' = [calls EXCEPT ![c] = Close(ReplaceRecordsBody(@, Reader(@, n)))]
    /\ UNCHANGED <<client, env>>

GetRecordsResp(c) ==
    /\ Respond(c, "GetRecords")
    /\ \E n \in 0..Len(calls[c].resp.body) :
          calls' = [calls EXCEPT ![c] = Close(GetRecordsBody(@, Reader(@, n)))]
    /\ UNCHANGED <<client, env>>

RemoveRecordResp(c) ==
    /\ Respond(c, "RemoveRecord")
    /\ \E n \in 0..Len(calls[c].resp.body) :
          calls' = [calls EXCEPT ![c] = Close(RemoveRecordBody(@, Reader(@, n)))]
    /\ UNCHANGED <<client, env>>

\* The caller takes the result; it may call again.
Return(c) ==
    /\ calls[c].pc = "done"
    /\ calls' = [calls EXCEPT ![c] = IdleCall]
    /\ UNCHANGED <<client, env>>

Callers == 1..NumCallers

Next ==
    \/ \E c \in Callers : c \in DOMAIN calls /\ ListZones(c)
    \/ \E c \in Callers : c \in DOMAIN calls /\ ReplaceRecords(c)
    \/ \E c \in Callers : c \in DOMAIN calls /\ GetRecords(c)
    \/ \E c \in Callers : c \in DOMAIN calls /\ RemoveRecord(c)
    \/ \E c \in Callers : c \in DOMAIN calls /\ Cancel(c)
    \/ \E c \in Callers : c \in DOMAIN calls /\ DoFails(c)
    \/ \E c \in Callers : c \in DOMAIN calls /\ DoResponds(c)
    \/ \E c \in Callers : c \in DOMAIN calls /\ ListZonesResp(c)
    \/ \E c \in Callers : c \in DOMAIN calls /\ ReplaceRecordsResp(c)
    \/ \E c \in Callers : c \in DOMAIN calls /\ GetRecordsResp(c)
    \/ \E c \in Callers : c \in DOMAIN calls /\ RemoveRecordResp(c)
    \/ \E c \in Callers : c \in DOMAIN calls /\ Return(c)

Spec == Init /\ [][Next]_vars
SpecShared == InitShared /\ [][Next]_vars

(***************************************************************************)
(* Properties.                                                             *)
(***************************************************************************)
Active == DOMAIN calls
Done(c) == calls[c].pc = "done"
Answered(c) == Done(c) /\ calls[c].hasResp
ReadInFull(c) == calls[c].got = Len(calls[c].resp.body) /\ calls[c].readErr = "none"
Messages(errors) == {errors[i].message : i \in DOMAIN errors}

\* C1: once a response has been received, an operation returns success only
\* on status 200; on any other status (other 2xx included) it returns the
\* ClientError of readError with exactly that status code, and no data.
C1_OnlyStatusOKSucceeds ==
    \A c \in Active :
        Answered(c) =>
            LET call == calls[c] IN
            /\ call.ret.err = NoErr => call.resp.status = StatusOK
            /\ call.resp.status # StatusOK =>
                  /\ call.ret.err.kind = "client"
                  /\ call.ret.err.StatusCode = call.resp.status
                  /\ call.ret.err = readError(Reader(call, call.got), call.resp.status)
                  /\ call.ret.data = <<>>

C1_Witness ==
    \E c \in Active :
        /\ Answered(c)
        /\ calls[c].resp.status = 204
        /\ calls[c].ret.err.kind = "client"
        /\ calls[c].ret.err.StatusCode = 204

\* C2: the error of a non-200 response carries the status code and either the
\* structured messages with an empty raw text (the body parses as the error
\* list) or the whole body as raw text and no structured messages (it does
\* not), never both.  Stated for bodies that were read to their end.
C2_TwoVariants ==
    \A c \in Active :
        (Answered(c) /\ calls[c].ret.err.kind = "client" /\ ReadInFull(c)) =>
            LET e == calls[c].ret.err
                u == Unmarshal(calls[c].resp.body, ClientErrorsType, <<>>)
            IN  /\ e.StatusCode = calls[c].resp.status
                /\ IF u.err = "none"
                   THEN e.message = <<>> /\ e.errors = u.v
                   ELSE e.message = calls[c].resp.body /\ e.errors = <<>>

\* C3 as claimed: a non-200 response with the body {"message":"invalid key"}
\* yields the structured message "invalid key" and no raw text.
C3_ObjectIsStructured ==
    \A c \in Active :
        (Answered(c) /\ calls[c].resp.status # StatusOK /\ ReadInFull(c)
            /\ calls[c].resp.body = BodyMessageObject) =>
            /\ calls[c].ret.err.kind = "client"
            /\ calls[c].ret.err.StatusCode = calls[c].resp.status
            /\ "invalid key" \in Messages(calls[c].ret.err.errors)
            /\ calls[c].ret.err.message = <<>>

\* C3 as amended: the body {"message":"invalid key"} is no list of errors, so
\* the error carries the status code, no structured message and, as raw text,
\* what was read of the body (all of it when the read completes); the list
\* [{"message":"invalid key"}], read in full, yields the structured message
\* "invalid key" and no raw text.
C3_ObjectIsRawText ==
    \A c \in Active :
        (Answered(c) /\ calls[c].resp.status # StatusOK) =>
            LET call == calls[c] IN
            /\ call.resp.body = BodyMessageObject =>
                  /\ call.ret.err.kind = "client"
                  /\ call.ret.err.StatusCode = call.resp.status
                  /\ call.ret.err.errors = <<>>
                  /\ call.ret.err.message = SubSeq(BodyMessageObject, 1, call.got)
                  /\ ReadInFull(c) => call.ret.err.message = BodyMessageObject
            /\ (call.resp.body = BodyMessageList /\ ReadInFull(c)) =>
                  /\ call.ret.err.kind = "client"
                  /\ call.ret.err.StatusCode = call.resp.status
                  /\ call.ret.err.errors = <<[code |-> "", message |-> "invalid key"]>>
                  /\ call.ret.err.message = <<>>

C3_Witness ==
    \E c \in Active :
        /\ Answered(c) /\ ReadInFull(c)
        /\ calls[c].resp.status = 401
        /\ calls[c].resp.body = BodyMessageObject
        /\ calls[c].ret.err.message = BodyMessageObject

\* C4: a call that obtained a response has closed its body exactly once when
\* it returns, on every path; a call that obtained none has touched no body;
\* no body is closed twice.
C4_BodyClosedOnce ==
    \A c \in Active :
        LET call == calls[c] IN
        /\ call.closed <= 1
        /\ Done(c) => call.closed = (IF call.hasResp THEN 1 ELSE 0)
        /\ ~call.hasResp => call.got = 0 /\ call.closed = 0
        /\ call.pc = "resp" => call.closed = 0

C4_Witness ==
    \E c \in Active :
        /\ Answered(c)
        /\ calls[c].ret.err.kind = "parse"
        /\ calls[c].closed = 1

\* C5: RemoveRecord and ReplaceRecords, on a 200 response, return no error
\* and have read the response body to its end, whatever its length.
C5_SuccessBodyConsumed ==
    \A c \in Active :
        (Answered(c) /\ calls[c].op \in {"RemoveRecord", "ReplaceRecords"}
            /\ calls[c].resp.status = StatusOK) =>
            /\ calls[c].ret.err = NoErr
            /\ calls[c].got = Len(calls[c].resp.body)

\* C6: a call whose context was done before the request was sent, or whose
\* read of the response body was cut short by the cancelled context, returns
\* an error wrapping the context's error and no data: never success, never a
\* ClientError built from the truncated body.
C6_CancellationSurfaces ==
    \A c \in Active :
        (Done(c) /\ (calls[c].ctx = "done" \/ calls[c].readErr = "ctx")) =>
            /\ calls[c].ret.err.kind \in {"call", "parse"}
            /\ calls[c].ret.err.cause = "ctx"
            /\ calls[c].ret.data = <<>>

\* What a call has handed to the transport, and what it returns when the
\* exchange failed.
C7_Requests ==
    \A c \in Active :
        LET call == calls[c] IN
        /\ Len(call.sent) <= 1
        /\ call.pc \in {"inflight", "resp"} => Len(call.sent) = 1
        /\ call.hasResp => Len(call.sent) = 1
        /\ (Done(c) /\ ~call.hasResp /\ Len(call.sent) = 1) => call.ret.err.kind = "call"
        /\ (Answered(c) /\ call.resp.status # StatusOK) => call.ret.err.kind = "client"

\* C7: a call hands at most one request to the transport; a failed exchange
\* (transport failure, decode failure, non-200 status) is returned as an
\* error with that single request; only a step that starts a call hands a
\* request over, so none follows the failure or the return.
C7_SingleRequestNoRetry ==
    /\ []C7_Requests
    /\ [][\A c \in Active :
             Len(calls'[c].sent) > Len(calls[c].sent) => calls[c].pc = "idle"]_vars

C7_Witness ==
    \E c \in Active :
        /\ Done(c)
        /\ calls[c].ret.err.kind = "call"
        /\ Len(calls[c].sent) = 1

\* The URL NewClient's base URL and the call's own arguments give.
ExpectedURL(call) ==
    LET path == CASE call.op = "ListZones" -> <<"v1", "zones">>
                  [] call.op = "RemoveRecord" ->
                        <<"v1", "zones", call.args.zoneID, "records", call.args.recordID>>
                  [] OTHER -> <<"v1", "zones", call.args.zoneID>>
    IN  [JoinPath(defaultBaseURL, path) EXCEPT
            !.RawQuery = IF call.op = "GetRecords" /\ ~call.args.filter.nil
                         THEN QueryValues(call.args.filter).query ELSE <<>>]

\* The client's configuration is that of NewClient, and every request's URL
\* is the expected one.
C8_Config ==
    /\ client.BaseURL = defaultBaseURL
    /\ client.HTTPClient = "http.DefaultClient"
    /\ client.apiKey \in ApiKeys
    /\ \A c \in Active : \A i \in DOMAIN calls[c].sent :
          calls[c].sent[i].URL = ExpectedURL(calls[c])

\* C8: with several callers on one client, in any interleaving, no step
\* changes the client's configuration, which stays that of NewClient; every
\* request's URL is the one built from the default base URL and the call's own
\* arguments, the GetRecords query string included.
C8_ConfigImmutable == []C8_Config /\ [][client' = client]_vars

C8_Witness ==
    \E c, d \in Active :
        /\ c # d
        /\ calls[c].pc = "inflight" /\ calls[d].pc = "inflight"
        /\ calls[c].op = "GetRecords" /\ calls[c].sent[1].URL.RawQuery # <<>>
        /\ calls[d].op = "ListZones" /\ calls[d].sent[1].URL.RawQuery = <<>>

\* C9: every request handed to the transport carries X-API-Key equal to the
\* key the client was constructed with, Accept: application/json and
\* Content-Type: application/json.
C9_Headers ==
    \A c \in Active : \A i \in DOMAIN calls[c].sent :
        LET h == calls[c].sent[i].Header IN
        /\ {"Accept", "Content-Type", "X-API-Key"} \subseteq DOMAIN h
        /\ h["X-API-Key"] = client.apiKey
        /\ h["Accept"] = "application/json"
        /\ h["Content-Type"] = "application/json"

C9_Witness ==
    \E c \in Active :
        /\ calls[c].pc = "inflight"
        /\ calls[c].op = "ReplaceRecords"
        /\ client.apiKey = "key-b"
        /\ calls[c].sent[1].Header["X-API-Key"] = "key-b"

\* C10 as claimed: on a 200 response with the body
\* [{"id":"1","name":"www","type":"A","content":"1.2.3.4"}], read in full,
\* ListZones and GetRecords both return no error and one element with the
\* field values of the body.
C10_ListDecodesForBoth ==
    \A c \in Active :
        (Answered(c) /\ calls[c].op \in {"ListZones", "GetRecords"} /\ ReadInFull(c)
            /\ calls[c].resp.status = StatusOK /\ calls[c].resp.body = BodyWwwList) =>
            /\ calls[c].ret.err = NoErr
            /\ Len(calls[c].ret.data) = 1
            /\ calls[c].ret.data[1].id = "1"
            /\ calls[c].ret.data[1].name = "www"

\* C10 as amended: on that response ListZones returns no error and the one
\* zone with id "1" and name "www"; GetRecords decodes a zone object, so on
\* that list it returns a parse error and no records, and it returns the one
\* record with those field values when the list is the "records" member of
\* the zone object.
C10_ListForZonesEnvelopeForRecords ==
    \A c \in Active :
        (Answered(c) /\ calls[c].resp.status = StatusOK) =>
            LET call == calls[c] IN
            /\ (call.op = "ListZones" /\ call.resp.body = BodyWwwList /\ ReadInFull(c)) =>
                  call.ret = [data |-> <<[id |-> "1", name |-> "www"]>>, err |-> NoErr]
            /\ (call.op = "GetRecords" /\ call.resp.body = BodyWwwList) =>
                  call.ret.err.kind = "parse" /\ call.ret.data = <<>>
            /\ (call.op = "GetRecords" /\ call.resp.body = BodyWwwZone /\ ReadInFull(c)) =>
                  call.ret = [data |-> <<WwwRecord>>, err |-> NoErr]

C10_Witness ==
    \E c \in Active :
        /\ Answered(c) /\ calls[c].op = "GetRecords" /\ calls[c].resp.status = StatusOK
        /\ calls[c].resp.body = BodyWwwList /\ ReadInFull(c)
        /\ calls[c].ret.err.kind = "parse"

====
